---- MODULE Spec2Model ----
(***************************************************************************)
(* SwarajyaAI backend: keyword search over the curated scheme catalog      *)
(* (backend/main.py), the Hindi reply composition with its fallback        *)
(* (backend/helper.py) and the manager of the catalog file                 *)
(* (backend/manage_schemes.py).                                            *)
(*                                                                         *)
(* Text is a sequence of one-character strings.  Scores are kept in half   *)
(* units (10.0 -> 20, 5.0 -> 10, 2.0 -> 4, 0.5 -> 1): every score of the   *)
(* program is a sum of these four floats, which is exact in binary, so     *)
(* the order and the equalities of the scores are preserved.               *)
(***************************************************************************)
EXTENDS Integers, Sequences, FiniteSets, TLC

VARIABLES catalog, client, last, file, inflight, manager

vars == <<catalog, client, last, file, inflight, manager>>

----------------------------------------------------------------------------
(* Bounds of the model *)

MaxCats == 2
MaxPerCat == 1
MaxBulk == 12
MaxQueryLen == 2

----------------------------------------------------------------------------
(* Python str operations on text *)

Whitespace == {" "}

LowerChar(c) ==
  CASE c = "A" -> "a"
    [] c = "B" -> "b"
    [] c = "G" -> "g"
    [] c = "H" -> "h"
    [] OTHER -> c

Lower(s) == [i \in 1..Len(s) |-> LowerChar(s[i])]

RECURSIVE LStrip(_)
LStrip(s) ==
  IF s # <<>> /\ Head(s) \in Whitespace THEN LStrip(Tail(s)) ELSE s

RECURSIVE RStrip(_)
RStrip(s) ==
  IF s # <<>> /\ s[Len(s)] \in Whitespace
    THEN RStrip(SubSeq(s, 1, Len(s) - 1))
    ELSE s

Strip(s) == RStrip(LStrip(s))

(* str.split(): the maximal runs of non-whitespace characters, in order *)
RECURSIVE SplitFrom(_, _, _)
SplitFrom(s, cur, acc) ==
  IF s = <<>>
    THEN IF cur = <<>> THEN acc ELSE Append(acc, cur)
    ELSE IF Head(s) \in Whitespace
      THEN SplitFrom(Tail(s), <<>>, IF cur = <<>> THEN acc ELSE Append(acc, cur))
      ELSE SplitFrom(Tail(s), Append(cur, Head(s)), acc)

Split(s) == SplitFrom(s, <<>>, <<>>)

(* ' '.join(parts) *)
RECURSIVE Join(_)
Join(parts) ==
  IF parts = <<>> THEN <<>>
  ELSE IF Len(parts) = 1 THEN parts[1]
  ELSE parts[1] \o <<" ">> \o Join(Tail(parts))

(* sub in s *)
Contains(sub, s) ==
  \E i \in 0..(Len(s) - Len(sub)) : SubSeq(s, i + 1, i + Len(sub)) = sub

(* s[:n] *)
Take(s, n) == SubSeq(s, 1, IF Len(s) < n THEN Len(s) ELSE n)

Range(f) == {f[i] : i \in DOMAIN f}

----------------------------------------------------------------------------
(* SEARCH_CONFIG and the score of each tier, in half units *)

max_results == 10
min_query_length == 2
MinWordLen == 2
KeywordScore == 20
TitleScore == 10
DescriptionScore == 4
PartialScore == 1

(* the text of one query word's tier test, in the order of the elif chain *)
searchable_text(scheme) ==
  Lower(scheme.title \o <<" ">> \o scheme.description \o <<" ">> \o Join(scheme.keywords))

word_score_skip2(scheme, word) ==
  IF Len(word) <= MinWordLen THEN 0
  ELSE IF word \in {Lower(kw) : kw \in Range(scheme.keywords)} THEN KeywordScore
  ELSE IF Contains(word, Lower(scheme.title)) THEN TitleScore
  ELSE IF Contains(word, Lower(scheme.description)) THEN DescriptionScore
  ELSE IF \E part \in Range(Split(searchable_text(scheme))) : Contains(word, part)
    THEN PartialScore
  ELSE 0

word_score_nolower(scheme, word) ==
  IF Len(word) < MinWordLen THEN 0
  ELSE IF word \in Range(scheme.keywords) THEN KeywordScore
  ELSE IF Contains(word, Lower(scheme.title)) THEN TitleScore
  ELSE IF Contains(word, Lower(scheme.description)) THEN DescriptionScore
  ELSE IF \E part \in Range(Split(searchable_text(scheme))) : Contains(word, part)
    THEN PartialScore
  ELSE 0

(* if ... if ... instead of if ... elif: every matching tier is added *)
word_score_cumulative(scheme, word) ==
  IF Len(word) < MinWordLen THEN 0
  ELSE (IF word \in {Lower(kw) : kw \in Range(scheme.keywords)} THEN KeywordScore ELSE 0)
       + (IF Contains(word, Lower(scheme.title)) THEN TitleScore ELSE 0)
       + (IF Contains(word, Lower(scheme.description)) THEN DescriptionScore ELSE 0)
       + (IF \E part \in Range(Split(searchable_text(scheme))) : Contains(word, part)
            THEN PartialScore ELSE 0)

(* the token test moved up, before the title and the description *)
word_score_partialfirst(scheme, word) ==
  IF Len(word) < MinWordLen THEN 0
  ELSE IF word \in {Lower(kw) : kw \in Range(scheme.keywords)} THEN KeywordScore
  ELSE IF \E part \in Range(Split(searchable_text(scheme))) : Contains(word, part)
    THEN PartialScore
  ELSE IF Contains(word, Lower(scheme.title)) THEN TitleScore
  ELSE IF Contains(word, Lower(scheme.description)) THEN DescriptionScore
  ELSE 0

word_score(scheme, word) ==
  IF Len(word) < MinWordLen THEN 0
  ELSE IF word \in {Lower(kw) : kw \in Range(scheme.keywords)} THEN KeywordScore
  ELSE IF Contains(word, Lower(scheme.title)) THEN TitleScore
  ELSE IF Contains(word, Lower(scheme.description)) THEN DescriptionScore
  ELSE IF \E part \in Range(Split(searchable_text(scheme))) : Contains(word, part)
    THEN PartialScore
  ELSE 0

(* score = ... instead of score += ...: the tier of the last matching word *)
RECURSIVE calculate_relevance_score_assign(_, _)
calculate_relevance_score_assign(scheme, query_words) ==
  IF query_words = <<>> THEN 0
  ELSE LET tier == word_score(scheme, query_words[Len(query_words)])
       IN  IF tier > 0 THEN tier
           ELSE calculate_relevance_score_assign(scheme,
                  SubSeq(query_words, 1, Len(query_words) - 1))

RECURSIVE calculate_relevance_score(_, _)
calculate_relevance_score(scheme, query_words) ==
  IF query_words = <<>> THEN 0
  ELSE word_score(scheme, Head(query_words))
         + calculate_relevance_score(scheme, Tail(query_words))

----------------------------------------------------------------------------
(* search_government_schemes over the catalog (CURATED_SCHEMES_DB) *)

(* the records in the order of the two nested for loops *)
RECURSIVE FlatRecords(_)
FlatRecords(db) ==
  IF db = <<>> THEN <<>> ELSE Head(db).schemes \o FlatRecords(Tail(db))

total_schemes(db) == Len(FlatRecords(db))

SchemeResult(scheme) ==
  [title |-> scheme.title, description |-> scheme.description, link |-> scheme.link]

(* scheme['title'], scheme['description'], scheme['keywords'] raise KeyError *)
score_raises(scheme) == ~({"title", "description", "keywords"} \subseteq DOMAIN scheme)

(* scheme['link'] raises KeyError while the results are built *)
result_raises(scheme) == ~("link" \in DOMAIN scheme)

query_too_short_nostrip(query) ==
  query = <<>> \/ Len(query) < min_query_length

query_too_short(query) ==
  query = <<>> \/ Len(Strip(query)) < min_query_length

query_words_of(query) == Split(Strip(Lower(query)))

(* relevance_score >= 0 instead of > 0 *)
RECURSIVE MatchFrom_keepzero(_, _, _)
MatchFrom_keepzero(flat, words, i) ==
  IF i > Len(flat) THEN <<>>
  ELSE <<[idx |-> i, score |-> calculate_relevance_score(flat[i], words)]>>
         \o MatchFrom_keepzero(flat, words, i + 1)

(* the append loop: [idx, score] of every record with score > 0 *)
RECURSIVE MatchFrom(_, _, _)
MatchFrom(flat, words, i) ==
  IF i > Len(flat) THEN <<>>
  ELSE LET relevance_score == calculate_relevance_score(flat[i], words)
       IN  (IF relevance_score > 0
              THEN <<[idx |-> i, score |-> relevance_score]>>
              ELSE <<>>)
           \o MatchFrom(flat, words, i + 1)

matching_schemes(flat, words) == MatchFrom(flat, words, 1)

(* list.sort(key=score, reverse=True): a stable sort, highest score first; *)
(* computed by inserting each match after the entries that are not lower   *)
RECURSIVE sort_insert_unstable(_, _)
sort_insert_unstable(sorted, m) ==
  IF sorted = <<>> THEN <<m>>
  ELSE IF Head(sorted).score <= m.score THEN <<m>> \o sorted
  ELSE <<Head(sorted)>> \o sort_insert_unstable(Tail(sorted), m)

RECURSIVE sort_insert(_, _)
sort_insert(sorted, m) ==
  IF sorted = <<>> THEN <<m>>
  ELSE IF Head(sorted).score < m.score THEN <<m>> \o sorted
  ELSE <<Head(sorted)>> \o sort_insert(Tail(sorted), m)

RECURSIVE SortFrom(_, _)
SortFrom(ms, acc) ==
  IF ms = <<>> THEN acc ELSE SortFrom(Tail(ms), sort_insert(acc, Head(ms)))

sort_by_score(ms) == SortFrom(ms, <<>>)

truncate_tail(sorted) ==
  SubSeq(sorted, IF Len(sorted) > max_results THEN Len(sorted) - max_results + 1 ELSE 1,
         Len(sorted))

(* matching_schemes[:max_results] *)
truncate(sorted) == Take(sorted, max_results)

EmptySearch(query, n) ==
  [results |-> <<>>, total_found |-> 0, search_query |-> query,
   scored |-> n, matched |-> 0, ranked |-> <<>>]

(* the try block inside the loop: a record that cannot be scored is        *)
(* skipped and the others are kept                                         *)
search_government_schemes_skip(db, query) ==
  IF query_too_short(query) THEN EmptySearch(query, 0)
  ELSE
    LET flat  == SelectSeq(FlatRecords(db), LAMBDA scheme : ~score_raises(scheme))
        words == query_words_of(query)
        found == matching_schemes(flat, words)
        top   == truncate(sort_by_score(found))
    IN  IF \E k \in 1..Len(top) : result_raises(flat[top[k].idx])
          THEN EmptySearch(query, Len(FlatRecords(db)))
          ELSE [results      |-> [k \in 1..Len(top) |-> SchemeResult(flat[top[k].idx])],
                total_found  |-> Len(top),
                search_query |-> query,
                scored       |-> Len(FlatRecords(db)),
                matched      |-> Len(found),
                ranked       |-> top]

(* The SearchResponse, with three observations of the run: scored, the     *)
(* number of calls of calculate_relevance_score; matched, the length of    *)
(* matching_schemes before the slice; ranked, the [idx, score] entries of  *)
(* matching_schemes[:max_results].                                         *)
search_government_schemes(db, query) ==
  IF query_too_short(query) THEN EmptySearch(query, 0)
  ELSE
    LET flat  == FlatRecords(db)
        words == query_words_of(query)
        bad   == {i \in 1..Len(flat) : score_raises(flat[i])}
    IN  IF bad # {}
          THEN EmptySearch(query, CHOOSE i \in bad : \A j \in bad : i <= j)
          ELSE
            LET found == matching_schemes(flat, words)
                top   == truncate(sort_by_score(found))
            IN  IF \E k \in 1..Len(top) : result_raises(flat[top[k].idx])
                  THEN EmptySearch(query, Len(flat))
                  ELSE [results      |-> [k \in 1..Len(top) |-> SchemeResult(flat[top[k].idx])],
                        total_found  |-> Len(top),
                        search_query |-> query,
                        scored       |-> Len(flat),
                        matched      |-> Len(found),
                        ranked       |-> top]

----------------------------------------------------------------------------
(* GroqHelper (helper.py) *)

(* The literal pieces of the Hindi texts are single symbols: they hold no  *)
(* character of a scheme field or of a query.                              *)
FallbackAvailable == "<yojana aapke liye uplabdh hai. >"
FallbackUnder     == "<is yojana ke tahat >"
FallbackDots      == "<... >"
FallbackApply     == "<aavedan karne ke liye diye gaye link par jaen ... sampark karen. >"
FallbackMore      == "<adhik jaankari ke liye aadhikarik website dekhen.>"

DescriptionLimit == 150

(* the reply opens by quoting the question *)
_get_fallback_response_query(scheme, user_query) ==
  user_query \o scheme.title \o <<FallbackAvailable>>
    \o (IF scheme.description # <<>>
          THEN <<FallbackUnder>> \o Take(scheme.description, DescriptionLimit) \o <<FallbackDots>>
          ELSE <<>>)
    \o <<FallbackApply>> \o <<FallbackMore>>

_get_fallback_response(scheme, user_query) ==
  scheme.title \o <<FallbackAvailable>>
    \o (IF scheme.description # <<>>
          THEN <<FallbackUnder>> \o Take(scheme.description, DescriptionLimit) \o <<FallbackDots>>
          ELSE <<>>)
    \o <<FallbackApply>> \o <<FallbackMore>>

(* What client.chat.completions.create does on one call: it returns a      *)
(* completion whose first choice has a text content, or it raises (provider*)
(* error, authentication), or it times out (raises), or it returns a       *)
(* completion with no choices (IndexError on choices[0]) or with content   *)
(* None (AttributeError on .strip()).                                      *)
ProviderTexts == { <<" ", "o", "k", " ">>, <<>> }

ProviderOutcomes ==
  {[kind |-> "text", content |-> t] : t \in ProviderTexts}
    \cup {[kind |-> k, content |-> <<>>] : k \in {"raise", "timeout", "no_choices", "content_none"}}

NoCall == [kind |-> "not_called", content |-> <<>>]

provider_failed(outcome) == outcome.kind # "text"

(* generate_hindi_response: [text, calls], calls being the number of       *)
(* calls made to the provider                                              *)
generate_hindi_response_propagate(available, scheme, user_query, outcome) ==
  IF ~available
    THEN [raised |-> FALSE, text |-> _get_fallback_response(scheme, user_query), calls |-> 0]
  ELSE IF provider_failed(outcome)
    THEN [raised |-> TRUE, text |-> <<>>, calls |-> 1]
  ELSE [raised |-> FALSE, text |-> Strip(outcome.content), calls |-> 1]

(* a failed call is tried once more before the fallback *)
generate_hindi_response_retry(available, scheme, user_query, outcome) ==
  IF ~available
    THEN [raised |-> FALSE, text |-> _get_fallback_response(scheme, user_query), calls |-> 0]
  ELSE IF provider_failed(outcome)
    THEN [raised |-> FALSE, text |-> _get_fallback_response(scheme, user_query), calls |-> 2]
  ELSE [raised |-> FALSE, text |-> Strip(outcome.content), calls |-> 1]

generate_hindi_response(available, scheme, user_query, outcome) ==
  IF ~available
    THEN [raised |-> FALSE, text |-> _get_fallback_response(scheme, user_query), calls |-> 0]
  ELSE IF provider_failed(outcome)
    THEN [raised |-> FALSE, text |-> _get_fallback_response(scheme, user_query), calls |-> 1]
  ELSE [raised |-> FALSE, text |-> Strip(outcome.content), calls |-> 1]

(* An error message: the literal chosen, its language, and the query it    *)
(* embeds (empty when the literal embeds none).                            *)
Message(text, lang, arg) == [text |-> text, lang |-> lang, arg |-> arg]

(* the key of the first entry misspelt: every reason gets the default *)
generate_error_response_default(query, error_type) ==
  CASE error_type = "invalid_query" -> Message("invalid_query", "hi", <<>>)
    [] OTHER                        -> Message("server_error", "hi", <<>>)

generate_error_response(query, error_type) ==
  CASE error_type = "no_results"    -> Message("no_results", "hi", query)
    [] error_type = "invalid_query" -> Message("invalid_query", "hi", <<>>)
    [] OTHER                        -> Message("server_error", "hi", <<>>)

----------------------------------------------------------------------------
(* The endpoints of main.py.  A handler's outcome is a response            *)
(* [status, detail, body]; raised names the exception class that left the  *)
(* try block, "none" when the block returned.                              *)

NoMessage == Message("", "", <<>>)
NoBody == [none |-> TRUE]

MsgQueryEmpty     == Message("Query cannot be empty", "en", <<>>)
MsgSearchInternal == Message("Internal server error during search", "en", <<>>)
MsgQueryInternal  == Message("server_error", "hi", <<>>)

Returned(body, searched, search, calls) ==
  [raised |-> "none", status |-> 200, detail |-> NoMessage, body |-> body,
   searched |-> searched, search |-> search, calls |-> calls]

Raised(class, status, detail, searched, search, calls) ==
  [raised |-> class, status |-> status, detail |-> detail, body |-> NoBody,
   searched |-> searched, search |-> search, calls |-> calls]

NotSearched == EmptySearch(<<>>, 0)

(* not request.query or len(request.query.strip()) == 0 *)
query_is_empty(query) == query = <<>> \/ Len(Strip(query)) = 0

SearchBody(sr) ==
  [results |-> sr.results, total_found |-> sr.total_found, search_query |-> sr.search_query]

(* the not-found text is composed by the provider when it is configured *)
convert_to_legacy_format_compose(search_results, available, outcome) ==
  IF search_results.results = <<>>
    THEN Raised("HTTPException", 404,
                generate_error_response(search_results.search_query, "no_results"),
                TRUE, search_results, IF available THEN 1 ELSE 0)
    ELSE
      LET first_result == search_results.results[1]
          scheme_data  == [title |-> first_result.title,
                           description |-> first_result.description,
                           link |-> first_result.link]
          hindi_reply  == generate_hindi_response(available, scheme_data,
                                                  search_results.search_query, outcome)
      IN  IF hindi_reply.raised
            THEN Raised("Exception", 0, NoMessage, TRUE, search_results, hindi_reply.calls)
            ELSE Returned([reply |-> hindi_reply.text,
                           link |-> first_result.link,
                           scheme_name |-> first_result.title],
                          TRUE, search_results, hindi_reply.calls)

convert_to_legacy_format(search_results, available, outcome) ==
  IF search_results.results = <<>>
    THEN Raised("HTTPException", 404,
                generate_error_response(search_results.search_query, "no_results"),
                TRUE, search_results, 0)
    ELSE
      LET first_result == search_results.results[1]
          scheme_data  == [title |-> first_result.title,
                           description |-> first_result.description,
                           link |-> first_result.link]
          hindi_reply  == generate_hindi_response(available, scheme_data,
                                                  search_results.search_query, outcome)
      IN  IF hindi_reply.raised
            THEN Raised("Exception", 0, NoMessage, TRUE, search_results, hindi_reply.calls)
            ELSE Returned([reply |-> hindi_reply.text,
                           link |-> first_result.link,
                           scheme_name |-> first_result.title],
                          TRUE, search_results, hindi_reply.calls)

(* POST /search: the except Exception clause also catches the              *)
(* HTTPException raised inside the try block                               *)
search_schemes(db, query) ==
  LET try == IF query_is_empty(query)
               THEN Raised("HTTPException", 400, MsgQueryEmpty, FALSE, NotSearched, 0)
               ELSE LET search_results == search_government_schemes(db, query)
                    IN  Returned(SearchBody(search_results), TRUE, search_results, 0)
  IN  IF try.raised # "none"
        THEN Raised(try.raised, 500, MsgSearchInternal, try.searched, try.search, try.calls)
        ELSE try

(* without the except HTTPException clause, as in search_schemes *)
query_schemes_catchall(db, available, query, outcome) ==
  LET try == IF query_is_empty(query)
               THEN Raised("HTTPException", 400, MsgQueryEmpty, FALSE, NotSearched, 0)
               ELSE convert_to_legacy_format(search_government_schemes(db, query),
                                             available, outcome)
  IN  IF try.raised # "none"
        THEN Raised(try.raised, 500, MsgQueryInternal, try.searched, try.search, try.calls)
        ELSE try

(* POST /query: except HTTPException re-raises, except Exception answers   *)
(* 500 with the Hindi server error text                                    *)
query_schemes(db, available, query, outcome) ==
  LET try == IF query_is_empty(query)
               THEN Raised("HTTPException", 400, MsgQueryEmpty, FALSE, NotSearched, 0)
               ELSE convert_to_legacy_format(search_government_schemes(db, query),
                                             available, outcome)
  IN  IF try.raised = "Exception"
        THEN Raised("Exception", 500, MsgQueryInternal, try.searched, try.search, try.calls)
        ELSE try

CategoryNames == <<"housing", "employment", "education", "health">>

(* GET /debug/{query} *)
debug_search(db, available, query) ==
  LET search_results == search_government_schemes(db, query)
  IN  Returned([query |-> query,
                groq_available |-> available,
                search_results |-> SearchBody(search_results),
                database_info |-> [total_categories |-> Len(db),
                                   categories |-> [i \in 1..Len(db) |-> db[i].name],
                                   total_schemes |-> total_schemes(db)]],
               TRUE, search_results, 0)

----------------------------------------------------------------------------
(* The catalogs and the requests of the model *)

Scheme(title, description, link, keywords) ==
  [title |-> title, description |-> description, link |-> link, keywords |-> keywords]

(* a short keyword "x"; a keyword of two words, one capitalised; an upper  *)
(* case keyword "GH" that equals the keyword "gh" of the first record      *)
Pool ==
  { Scheme(<<"A", "b">>, <<"c", "d", " ", "e", "f">>, <<"h", ":", "1">>,
           << <<"g", "h">>, <<"x">> >>),
    Scheme(<<"g", "h">>, <<>>, <<"h", ":", "2">>,
           << <<"A", "b", " ", "g", "h">> >>),
    Scheme(<<"e", "f">>, <<"a", "b">>, <<"h", ":", "3">>,
           << <<"G", "H">>, <<"c", "d", "x">> >>) }

SeqsUpTo(S, n) == UNION {[1..k -> S] : k \in 0..n}

(* the JSON object "schemes": category name -> list of records, in the     *)
(* order of the file                                                       *)
SmallCatalogs ==
  UNION { { [i \in 1..n |-> [name |-> CategoryNames[i], schemes |-> f[i]]]
              : f \in [1..n -> SeqsUpTo(Pool, MaxPerCat)] }
          : n \in 0..MaxCats }

(* one category of more than max_results records *)
BulkCatalogs ==
  { << [name |-> CategoryNames[1],
        schemes |-> [i \in 1..n |-> t[(i % 3) + 1]]] >>
      : n \in (max_results + 1)..MaxBulk, t \in [1..3 -> Pool] }

Catalogs == SmallCatalogs \cup BulkCatalogs

QueryChars == {"g", " "}

Queries ==
  SeqsUpTo(QueryChars, MaxQueryLen)
    \cup UNION {Range(r.keywords) : r \in Pool}
    \cup { <<" ", "g", "h", " ">>, <<"c", "d">>, <<"e", "f", " ", "a", "b">>,
           <<"z", "z">>, <<"A", "b">>, <<"g", "h", " ", "c", "d", " ", "x">> }

----------------------------------------------------------------------------
(* schemes_database.json and load_schemes_database.  The file is missing,  *)
(* or is not valid JSON, or holds a JSON object data; a JSON object is a   *)
(* record whose domain is the set of its keys.                             *)

EmptyObject == [k \in {} |-> <<>>]

MissingFile == [kind |-> "missing", data |-> EmptyObject]
InvalidFile == [kind |-> "invalid", data |-> EmptyObject]
JsonFile(data) == [kind |-> "json", data |-> data]

(* the database manager (manage_schemes.py) is a separate program: where   *)
(* the service is followed, no SchemesManager exists                       *)
NoManager == [manager |-> "none"]

(* the metadata that save_database of the manager writes *)
SavedMetadata(schemes) ==
  [version |-> "1.0", last_updated |-> "2024-01-01", total_categories |-> Len(schemes)]

Document(metadata, schemes) == [metadata |-> metadata, schemes |-> schemes]

Loaded(schemes) == [raised |-> "none", schemes |-> schemes]
LoadRaised(class) == [raised |-> class, schemes |-> <<>>]

(* the body of the try block: open, json.load, the logger.info line that   *)
(* reads data['metadata']['total_categories'] and data['schemes'], and     *)
(* return data['schemes']                                                  *)
load_try(f) ==
  IF f.kind = "missing" THEN LoadRaised("FileNotFoundError")
  ELSE IF f.kind = "invalid" THEN LoadRaised("JSONDecodeError")
  ELSE IF ~("metadata" \in DOMAIN f.data) THEN LoadRaised("KeyError")
  ELSE IF ~("total_categories" \in DOMAIN f.data.metadata) THEN LoadRaised("KeyError")
  ELSE IF ~("schemes" \in DOMAIN f.data) THEN LoadRaised("KeyError")
  ELSE Loaded(f.data.schemes)

load_schemes_database_nocatch(f) ==
  LET try == load_try(f)
  IN  IF try.raised = "FileNotFoundError" THEN Loaded(<<>>) ELSE try

(* except FileNotFoundError, except json.JSONDecodeError, except Exception *)
load_schemes_database(f) ==
  LET try == load_try(f)
  IN  IF try.raised = "FileNotFoundError" THEN Loaded(<<>>)
      ELSE IF try.raised = "JSONDecodeError" THEN Loaded(<<>>)
      ELSE IF try.raised # "none" THEN Loaded(<<>>)
      ELSE try

----------------------------------------------------------------------------
(* State: the catalog loaded at startup, whether the Groq client was       *)
(* created (client is not None), the request being answered, the catalog   *)
(* file read at startup, the requests that concurrent clients have in      *)
(* flight (none where one request at a time is followed), and the document *)
(* that the database manager holds in memory.                              *)

Idle ==
  [endpoint |-> "none", query |-> <<>>, outcome |-> NoCall]
    @@ Returned(NoBody, FALSE, NotSearched, 0)

Answer(endpoint, query, outcome, r) ==
  [endpoint |-> endpoint, query |-> query,
   outcome |-> IF r.calls = 0 THEN NoCall ELSE outcome] @@ r

Init ==
  /\ catalog \in Catalogs
  /\ client \in BOOLEAN
  /\ last = Idle
  /\ file = JsonFile(Document(SavedMetadata(catalog), catalog))
  /\ inflight = <<>>
  /\ manager = NoManager

PostSearch ==
  /\ last.endpoint = "none"
  /\ \E query \in Queries :
       last' = Answer("search", query, NoCall, search_schemes(catalog, query))
  /\ UNCHANGED <<catalog, client, file, inflight, manager>>

PostQuery ==
  /\ last.endpoint = "none"
  /\ \E query \in Queries, outcome \in ProviderOutcomes :
       last' = Answer("query", query, outcome,
                      query_schemes(catalog, client, query, outcome))
  /\ UNCHANGED <<catalog, client, file, inflight, manager>>

GetDebug ==
  /\ last.endpoint = "none"
  /\ \E query \in Queries \ {<<>>} :
       last' = Answer("debug", query, NoCall, debug_search(catalog, client, query))
  /\ UNCHANGED <<catalog, client, file, inflight, manager>>

(* the response is sent and the worker takes the next request *)
Complete ==
  /\ last.endpoint # "none"
  /\ last' = Idle
  /\ UNCHANGED <<catalog, client, file, inflight, manager>>

Next == PostSearch \/ PostQuery \/ GetDebug \/ Complete

Spec == Init /\ [][Next]_vars

----------------------------------------------------------------------------
(* Properties *)

Flat == FlatRecords(catalog)

Words == query_words_of(last.query)

ScoreOf(i) == calculate_relevance_score(Flat[i], Words)

Trimmed == Strip(last.query)

(* C1: a POST /search request whose query is empty after trimming is       *)
(* answered with a normal search payload whose results list is empty, not  *)
(* with an error response.                                                 *)
C1_EmptyQuerySearchReturnsEmptyResults ==
  (last.endpoint = "search" /\ Trimmed = <<>>)
    => (last.status = 200 /\ last.body.results = <<>>)

(* C2: total_found equals the number of records with score > 0, counted    *)
(* before the truncation to max_results.                                   *)
C2_TotalFoundCountsAllMatches ==
  (last.endpoint = "search" /\ last.status = 200)
    => last.body.total_found = Cardinality({i \in 1..Len(Flat) : ScoreOf(i) > 0})

(* C3: the text composed on the fallback path (provider not configured)    *)
(* contains the link of the scheme it describes.                           *)
C3_FallbackContainsLink ==
  (last.endpoint = "query" /\ last.status = 200 /\ ~client)
    => Contains(Flat[last.search.ranked[1].idx].link, last.body.reply)

(* C4: a POST /query request whose search yields a match completes with a  *)
(* successful reply whatever the provider does, and when the provider call *)
(* fails the reply is exactly the fallback text of the top scheme.         *)
C4_ProviderFailureMasked ==
  (last.endpoint = "query" /\ last.searched /\ last.search.results # <<>>)
    => /\ last.raised = "none"
       /\ last.status = 200
       /\ (last.calls > 0 /\ provider_failed(last.outcome))
            => last.body.reply
                 = _get_fallback_response(Flat[last.search.ranked[1].idx], last.query)

C4_Witness ==
  /\ last.endpoint = "query"
  /\ client
  /\ last.outcome.kind = "timeout"
  /\ last.status = 200
  /\ Len(last.search.results) > 1

(* C5: at POST /query a query rejected by input validation (empty or       *)
(* shorter than the minimum length after trimming) never gets the          *)
(* not-found outcome (404 with the no_results message) of a legitimate     *)
(* search without a match.                                                 *)
C5_NotFoundReservedForLegitimateQueries ==
  (last.endpoint = "query" /\ Len(Trimmed) < min_query_length)
    => ~(last.status = 404 /\ last.detail.text = "no_results")

(* C6: for a query whose length after trimming is below min_query_length,  *)
(* search returns an empty result list and total_found = 0 and scores no   *)
(* record.                                                                 *)
C6_ShortQueryReturnsEmptyUnscored ==
  (last.searched /\ Len(Trimmed) < min_query_length)
    => /\ last.search.results = <<>>
       /\ last.search.total_found = 0
       /\ last.search.scored = 0

C6_Witness ==
  /\ last.endpoint = "debug"
  /\ last.query = <<" ", "g">>
  /\ Len(Flat) > 0
  /\ last.body.search_results.results = <<>>

(* C7: the results are ordered non-increasing by relevance score, and two  *)
(* records of equal score appear in the order of the catalog iteration.    *)
C7_SortedByScoreStable ==
  last.searched =>
    LET ranked == last.search.ranked
    IN  /\ Len(last.search.results) = Len(ranked)
        /\ \A k \in 1..Len(ranked) :
             /\ ranked[k].idx \in 1..Len(Flat)
             /\ ranked[k].score = ScoreOf(ranked[k].idx)
             /\ last.search.results[k] = SchemeResult(Flat[ranked[k].idx])
        /\ \A k \in 1..Len(ranked), m \in 1..Len(ranked) :
             k < m => \/ ranked[k].score > ranked[m].score
                      \/ /\ ranked[k].score = ranked[m].score
                         /\ ranked[k].idx < ranked[m].idx

C7_Witness ==
  /\ last.endpoint = "search"
  /\ last.status = 200
  /\ Len(last.search.ranked) >= 3
  /\ \E k \in 1..(Len(last.search.ranked) - 2) :
       /\ last.search.ranked[k].score = last.search.ranked[k + 1].score
       /\ last.search.ranked[k + 1].score > last.search.ranked[k + 2].score
       /\ last.search.ranked[k + 2].idx < last.search.ranked[k].idx

(* C8: search returns at most max_results records, and they are the first  *)
(* max_results entries of the sorted list of all matching records: every   *)
(* returned record ranks before every matching record that is dropped.     *)
C8_TruncatedToTopMaxResults ==
  last.searched =>
    LET ranked   == last.search.ranked
        returned == {ranked[k].idx : k \in 1..Len(ranked)}
        matching == {i \in 1..Len(Flat) : ScoreOf(i) > 0}
    IN  /\ Len(last.search.results) <= max_results
        /\ returned \subseteq matching
        /\ Cardinality(returned) = Len(ranked)
        /\ Len(ranked) = IF Cardinality(matching) < max_results
                           THEN Cardinality(matching) ELSE max_results
        /\ \A r \in returned, d \in matching \ returned :
             \/ ScoreOf(r) > ScoreOf(d)
             \/ ScoreOf(r) = ScoreOf(d) /\ r < d

C8_Witness ==
  /\ last.endpoint = "search"
  /\ last.status = 200
  /\ Len(last.body.results) = max_results
  /\ last.search.matched > max_results
  /\ \E k \in 1..max_results : last.search.ranked[k].score < last.search.ranked[1].score

HasLongWord(kw) == \E w \in Range(Split(Lower(kw))) : Len(w) >= MinWordLen

(* C9 (as claimed): for every record and every keyword of it, the query    *)
(* consisting solely of that keyword gives the record a score > 0.         *)
C9_KeywordQueryScoresPositive ==
  \A i \in 1..Len(Flat) :
    (last.searched /\ last.query \in Range(Flat[i].keywords)) => ScoreOf(i) > 0

(* C9 (amended): for every record and every keyword of it that holds a     *)
(* whitespace-delimited word of at least 2 characters, the query           *)
(* consisting solely of that keyword gives the record a score > 0.         *)
C9_LongKeywordQueryScoresPositive ==
  \A i \in 1..Len(Flat) :
    (last.searched /\ last.query \in Range(Flat[i].keywords) /\ HasLongWord(last.query))
      => ScoreOf(i) > 0

C9_Witness ==
  /\ last.endpoint = "debug"
  /\ last.query = <<"A", "b", " ", "g", "h">>
  /\ \E k \in 1..Len(last.search.ranked) :
       last.query \in Range(Flat[last.search.ranked[k].idx].keywords)

(* C10 (as claimed): searching for a keyword taken from a record of the    *)
(* catalog returns that record as the first result.                        *)
C10_KeywordSearchReturnsRecordFirst ==
  \A i \in 1..Len(Flat) :
    (last.endpoint = "search" /\ last.status = 200
       /\ last.query \in Range(Flat[i].keywords))
      => /\ last.body.results # <<>>
         /\ last.body.results[1] = SchemeResult(Flat[i])

HoldsKeyword(scheme, kw) == \E k \in Range(scheme.keywords) : Lower(k) = Lower(kw)

SingleWord(kw) == Split(kw) = <<kw>>

(* C10 (amended): searching for a keyword of a record that is a single     *)
(* word of at least 2 characters returns as first result the first record  *)
(* of the catalog that holds that keyword ignoring case: the record itself *)
(* when no earlier record holds the same keyword.                          *)
C10_SingleWordKeywordReturnsFirstHolder ==
  \A i \in 1..Len(Flat) :
    (last.endpoint = "search" /\ last.status = 200
       /\ last.query \in Range(Flat[i].keywords)
       /\ SingleWord(last.query) /\ Len(last.query) >= MinWordLen)
      => LET first == CHOOSE j \in 1..i :
                        /\ HoldsKeyword(Flat[j], last.query)
                        /\ \A h \in 1..(j - 1) : ~HoldsKeyword(Flat[h], last.query)
         IN  /\ last.body.results # <<>>
             /\ last.search.ranked[1].idx = first
             /\ last.body.results[1] = SchemeResult(Flat[first])

C10_Witness ==
  /\ last.endpoint = "search"
  /\ last.status = 200
  /\ last.query = <<"G", "H">>
  /\ Len(last.search.ranked) >= 2
  /\ last.search.ranked[1].idx > 1
  /\ last.query \in Range(Flat[last.search.ranked[1].idx].keywords)

----------------------------------------------------------------------------
(* calculate_relevance_score called on its own, as test_relevance_scoring  *)
(* does: one record, and a list of query words that grows by one word per  *)
(* call.                                                                   *)

MaxWords == 3

ScoreWords ==
  { <<"g", "h">>, <<"a", "b">>, <<"c", "d">>, <<"e", "f">>,
    <<"x">>, <<"z", "z">>, <<"G", "H">> }

ScoreCatalogs == { << [name |-> CategoryNames[1], schemes |-> <<r>>] >> : r \in Pool }

ScoreCall(scheme, query_words) ==
  [endpoint |-> "score", query_words |-> query_words,
   score |-> calculate_relevance_score(scheme, query_words)]

InitScore ==
  /\ catalog \in ScoreCatalogs
  /\ client = FALSE
  /\ file = JsonFile(Document(SavedMetadata(catalog), catalog))
  /\ inflight = <<>>
  /\ manager = NoManager
  /\ last = ScoreCall(catalog[1].schemes[1], <<>>)

ScoreMore ==
  /\ Len(last.query_words) < MaxWords
  /\ \E word \in ScoreWords :
       last' = ScoreCall(catalog[1].schemes[1], Append(last.query_words, word))
  /\ UNCHANGED <<catalog, client, file, inflight, manager>>

NextScore == ScoreMore

SpecScore == InitScore /\ [][NextScore]_vars

Scored == catalog[1].schemes[1]

(* C11: appending one more query word, matching or not, never yields a     *)
(* lower score than the score of the original list, and every score is     *)
(* non-negative.                                                           *)
C11_ScoreMonotonicNonNegative ==
  [][last'.score >= last.score /\ last'.score >= 0 /\ last.score >= 0]_vars

C11_Witness ==
  /\ Len(last.query_words) = 3
  /\ last.query_words[2] = <<"z", "z">>
  /\ last.score > calculate_relevance_score(Scored, <<last.query_words[1]>>)
  /\ calculate_relevance_score(Scored, <<last.query_words[1]>>) > 0

IsKeyword(scheme, word) ==
  \E k \in 1..Len(scheme.keywords) : Lower(scheme.keywords[k]) = word

(* the whitespace-delimited tokens of title, description and keywords *)
CombinedTokens(scheme) ==
  Range(Split(Lower(scheme.title))) \cup Range(Split(Lower(scheme.description)))
    \cup UNION {Range(Split(Lower(scheme.keywords[k]))) : k \in 1..Len(scheme.keywords)}

(* C12: a query word of length >= 2 contributes exactly one of 10, 5, 2,   *)
(* 0.5 or 0, chosen by the first tier that matches in the order exact      *)
(* keyword, substring of title, substring of description, substring of a   *)
(* token of the combined text; a word of length < 2 contributes 0; the     *)
(* total is the sum of the contributions, a repeated word counting each    *)
(* time.                                                                   *)
C12_FirstMatchingTierPerWord ==
  IF last.query_words = <<>> THEN last.score = 0
  ELSE
    LET n     == Len(last.query_words)
        word  == last.query_words[n]
        given == last.score
                   - calculate_relevance_score(Scored, SubSeq(last.query_words, 1, n - 1))
        inKw  == IsKeyword(Scored, word)
        inTi  == Contains(word, Lower(Scored.title))
        inDe  == Contains(word, Lower(Scored.description))
        inTok == \E token \in CombinedTokens(Scored) : Contains(word, token)
    IN  /\ given \in {KeywordScore, TitleScore, DescriptionScore, PartialScore, 0}
        /\ Len(word) < MinWordLen => given = 0
        /\ Len(word) >= MinWordLen =>
             /\ inKw => given = KeywordScore
             /\ (~inKw /\ inTi) => given = TitleScore
             /\ (~inKw /\ ~inTi /\ inDe) => given = DescriptionScore
             /\ (~inKw /\ ~inTi /\ ~inDe /\ inTok) => given = PartialScore
             /\ (~inKw /\ ~inTi /\ ~inDe /\ ~inTok) => given = 0

C12_Witness ==
  /\ last.query_words = << <<"g", "h">>, <<"g", "h">>, <<"x">> >>
  /\ last.score = 2 * KeywordScore

----------------------------------------------------------------------------
(* Properties of the running service *)

(* C13: a record appears in the search results only if its relevance       *)
(* score for the query is strictly greater than 0.                         *)
C13_OnlyPositiveScoresReturned ==
  last.searched =>
    \A k \in 1..Len(last.search.results) :
      /\ ScoreOf(last.search.ranked[k].idx) > 0
      /\ \E i \in 1..Len(Flat) :
           /\ SchemeResult(Flat[i]) = last.search.results[k]
           /\ ScoreOf(i) > 0

C13_Witness ==
  /\ last.endpoint = "search"
  /\ last.status = 200
  /\ Len(last.body.results) >= 1
  /\ \E i \in 1..Len(Flat) :
       /\ ScoreOf(i) = 0
       /\ \A k \in 1..Len(last.body.results) : last.body.results[k] # SchemeResult(Flat[i])

----------------------------------------------------------------------------
(* GET /, GET /schemes and GET /health/groq *)

GroqModel == "llama-3.3-70b-versatile"

root(db, available) ==
  Returned([message |-> "SwarajyaAI API is running!",
            status |-> "healthy",
            groq_available |-> available,
            search_type |-> "curated_database",
            llama_enhanced |-> TRUE,
            total_schemes |-> total_schemes(db)],
           FALSE, NotSearched, 0)

list_schemes(db) ==
  Returned([message |-> "Available government scheme categories",
            categories |-> [i \in 1..Len(db) |-> db[i].name],
            total_schemes |-> total_schemes(db),
            note |-> "Use the /search or /query endpoint to find specific schemes"],
           FALSE, NotSearched, 0)

(* GroqHelper.test_connection: every exception of the call, of choices[0]  *)
(* and of response[:50] is caught and gives False                          *)
test_connection(available, outcome) ==
  IF ~available THEN [ok |-> FALSE, calls |-> 0]
  ELSE IF provider_failed(outcome) THEN [ok |-> FALSE, calls |-> 1]
  ELSE [ok |-> TRUE, calls |-> 1]

(* the endpoint answers 503 when the integration is not healthy *)
groq_health_unavailable(available, outcome) ==
  LET connection_test == IF available THEN test_connection(available, outcome)
                         ELSE [ok |-> FALSE, calls |-> 0]
  IN  IF available /\ connection_test.ok
        THEN Returned([groq_client_initialized |-> available,
                       groq_api_connection |-> connection_test.ok,
                       model |-> GroqModel,
                       status |-> "healthy",
                       fallback_available |-> TRUE,
                       message |-> "Groq integration working properly"],
                      FALSE, NotSearched, connection_test.calls)
        ELSE Raised("HTTPException", 503, NoMessage, FALSE, NotSearched,
                    connection_test.calls)

(* is_available and test_connection raise nothing, so the except clause   *)
(* of the handler, which answers a payload of status "error", is not taken *)
groq_health(available, outcome) ==
  LET connection_test == IF available THEN test_connection(available, outcome)
                         ELSE [ok |-> FALSE, calls |-> 0]
  IN  Returned([groq_client_initialized |-> available,
                groq_api_connection |-> connection_test.ok,
                model |-> GroqModel,
                status |-> IF available /\ connection_test.ok THEN "healthy" ELSE "degraded",
                fallback_available |-> TRUE,
                message |-> IF connection_test.ok
                              THEN "Groq integration working properly"
                              ELSE "Using fallback Hindi responses"],
               FALSE, NotSearched, connection_test.calls)

----------------------------------------------------------------------------
(* The service from its start: the module loads the catalog file, then     *)
(* answers requests on every endpoint.                                     *)

FileCatalogs ==
  {<<>>} \cup ScoreCatalogs
    \cup { << [name |-> CategoryNames[1], schemes |-> <<r1>>],
              [name |-> CategoryNames[2], schemes |-> <<r2>>] >> : r1 \in Pool, r2 \in Pool }

(* the metadata of a document: as saved by the manager, an empty object,   *)
(* an object without total_categories, an object with other content        *)
Metadatas(schemes) ==
  { SavedMetadata(schemes),
    EmptyObject,
    [version |-> "1.0"],
    [total_categories |-> 0, note |-> "free form"] }

Files ==
  {MissingFile, InvalidFile}
    \cup {JsonFile(Document(m, c)) : m \in Metadatas(<<>>), c \in FileCatalogs}
    \cup {JsonFile(Document(SavedMetadata(c), c)) : c \in FileCatalogs}
    \cup {JsonFile([schemes |-> c]) : c \in FileCatalogs}
    \cup {JsonFile([metadata |-> SavedMetadata(<<>>)])}

(* CURATED_SCHEMES_DB = load_schemes_database() at import *)
Startup(load) ==
  Answer("startup", <<>>, NoCall,
         IF load.raised = "none"
           THEN Returned(NoBody, FALSE, NotSearched, 0)
           ELSE Raised(load.raised, 0, NoMessage, FALSE, NotSearched, 0))

InitService ==
  /\ file \in Files
  /\ catalog = load_schemes_database(file).schemes
  /\ last = Startup(load_schemes_database(file))
  /\ client \in BOOLEAN
  /\ inflight = <<>>
  /\ manager = NoManager

GetRoot ==
  /\ last.endpoint = "none"
  /\ last' = Answer("root", <<>>, NoCall, root(catalog, client))
  /\ UNCHANGED <<catalog, client, file, inflight, manager>>

GetSchemes ==
  /\ last.endpoint = "none"
  /\ last' = Answer("schemes", <<>>, NoCall, list_schemes(catalog))
  /\ UNCHANGED <<catalog, client, file, inflight, manager>>

GetHealth ==
  /\ last.endpoint = "none"
  /\ \E outcome \in ProviderOutcomes :
       last' = Answer("health", <<>>, outcome, groq_health(client, outcome))
  /\ UNCHANGED <<catalog, client, file, inflight, manager>>

NextService ==
  PostSearch \/ PostQuery \/ GetDebug \/ GetRoot \/ GetSchemes \/ GetHealth \/ Complete

SpecService == InitService /\ [][NextService]_vars

(* C14: when the catalog file is missing or is not valid JSON, loading     *)
(* does not raise and yields an empty catalog: GET / and GET /schemes      *)
(* report total_schemes = 0 and every search returns an empty result list  *)
(* without raising.                                                        *)
C14_UnreadableFileGivesEmptyCatalog ==
  file.kind \in {"missing", "invalid"} =>
    /\ last.endpoint = "startup" => last.raised = "none"
    /\ catalog = <<>>
    /\ last.endpoint \in {"root", "schemes"} =>
         last.status = 200 /\ last.body.total_schemes = 0
    /\ last.searched => last.search.results = <<>> /\ last.search.total_found = 0
    /\ last.endpoint = "search" /\ last.searched =>
         last.status = 200 /\ last.body.results = <<>>
    /\ last.endpoint = "debug" =>
         last.status = 200 /\ last.body.search_results.results = <<>>

C14_Witness ==
  /\ file.kind = "invalid"
  /\ last.endpoint = "search"
  /\ last.query = <<"g", "h">>
  /\ last.status = 200
  /\ last.body.total_found = 0

(* C15: for every well-formed catalog document with a schemes mapping,     *)
(* loading returns exactly that schemes mapping whatever the metadata      *)
(* object contains, an empty metadata object included.                     *)
C15_MetadataIsFreeForm ==
  (file.kind = "json" /\ {"metadata", "schemes"} \subseteq DOMAIN file.data)
    => catalog = file.data.schemes

NoMatch == \A i \in 1..Len(Flat) : ScoreOf(i) = 0

(* C16: POST /query returns a 404 error whose detail is the no_results     *)
(* message holding the query exactly when the query is non-empty and the   *)
(* search yields no matching scheme; the 404 is not turned into a server   *)
(* error by the endpoint's exception handling.                             *)
C16_NotFoundExactlyOnNoMatch ==
  last.endpoint = "query" =>
    /\ last.status = 404 <=> (Trimmed # <<>> /\ NoMatch)
    /\ last.status = 404 =>
         /\ last.raised = "HTTPException"
         /\ last.detail = Message("no_results", "hi", last.query)

C16_Witness ==
  /\ last.endpoint = "query"
  /\ last.query = <<"z", "z">>
  /\ Len(Flat) > 1
  /\ last.status = 404
  /\ last.detail.arg = <<"z", "z">>

(* C17: whatever the state of the provider integration, GET /health/groq   *)
(* completes normally with a payload that has a status field, and the      *)
(* provider liveness call is made only when the client is configured.      *)
C17_HealthAlwaysAnswers ==
  last.endpoint = "health" =>
    /\ last.raised = "none"
    /\ last.status = 200
    /\ "status" \in DOMAIN last.body
    /\ last.body.status \in {"healthy", "degraded", "error"}
    /\ last.calls > 0 => client

C17_Witness ==
  /\ last.endpoint = "health"
  /\ client
  /\ last.outcome.kind = "content_none"
  /\ last.body.status = "degraded"
  /\ last.calls = 1

(* C18: every error message an endpoint returns to the caller is in Hindi; *)
(* no reachable error response has an English detail string.               *)
C18_ErrorMessagesInHindi ==
  (last.endpoint \in {"search", "query"} /\ last.status >= 400)
    => last.detail.lang = "hi"

(* C20: during one POST /query request the provider is called at most      *)
(* once, and after a failed call the request goes to the fallback without  *)
(* a second call.                                                          *)
C20_NoRetry ==
  last.endpoint = "query" =>
    /\ last.calls <= 1
    /\ (last.calls >= 1 /\ provider_failed(last.outcome)) =>
         /\ last.calls = 1
         /\ last.status = 200
         /\ last.body.reply
              = _get_fallback_response(Flat[last.search.ranked[1].idx], last.query)

C20_Witness ==
  /\ last.endpoint = "query"
  /\ last.outcome.kind = "raise"
  /\ last.calls = 1
  /\ last.status = 200

----------------------------------------------------------------------------
(* Concurrent clients.  The handlers are coroutines without an await, so   *)
(* the event loop runs each of them from its first line to its return;     *)
(* requests of several clients are in flight together and are handled in   *)
(* any order.                                                              *)

MaxInFlight == 2

Slots == 1..MaxInFlight

ConcCatalogs ==
  { << [name |-> CategoryNames[1], schemes |-> <<p[1], p[2]>>] >>
      : p \in { q \in Pool \X Pool : q[1] # q[2] } }

ConcRequests ==
  { [endpoint |-> "search", query |-> <<"g", "h">>],
    [endpoint |-> "query",  query |-> <<"g", "h">>],
    [endpoint |-> "query",  query |-> <<"z", "z">>],
    [endpoint |-> "debug",  query |-> <<"g">>],
    [endpoint |-> "root",    query |-> <<>>],
    [endpoint |-> "schemes", query |-> <<>>],
    [endpoint |-> "health",  query |-> <<>>] }

ConcOutcomes ==
  { [kind |-> "text", content |-> <<" ", "o", "k", " ">>],
    [kind |-> "timeout", content |-> <<>>] }

(* the routes of app *)
handle(db, available, endpoint, query, outcome) ==
  Answer(endpoint, query, outcome,
         CASE endpoint = "search"  -> search_schemes(db, query)
           [] endpoint = "query"   -> query_schemes(db, available, query, outcome)
           [] endpoint = "debug"   -> debug_search(db, available, query)
           [] endpoint = "root"    -> root(db, available)
           [] endpoint = "schemes" -> list_schemes(db)
           [] OTHER                -> groq_health(available, outcome))

RECURSIVE Reversed(_)
Reversed(seq) ==
  IF seq = <<>> THEN <<>> ELSE Append(Reversed(Tail(seq)), Head(seq))

(* the search sorts the lists of the catalog in place *)
catalog_after_request_sorted(db, endpoint) ==
  IF endpoint \in {"search", "query", "debug"}
    THEN [i \in 1..Len(db) |-> [name |-> db[i].name, schemes |-> Reversed(db[i].schemes)]]
    ELSE db

(* CURATED_SCHEMES_DB after a handler has run: no handler assigns it, and  *)
(* search_government_schemes appends to and sorts its own list             *)
(* matching_schemes, whose entries only refer to the records               *)
catalog_after_request(db, endpoint) == db

FreeSlot == [stage |-> "free", answer |-> Idle]

InitConc ==
  /\ \E c \in ConcCatalogs : file = JsonFile(Document(SavedMetadata(c), c))
  /\ catalog = load_schemes_database(file).schemes
  /\ client \in BOOLEAN
  /\ last = Idle
  /\ inflight = [s \in Slots |-> FreeSlot]
  /\ manager = NoManager

(* a request arrives and waits for the event loop *)
Arrive ==
  /\ \E s \in Slots, r \in ConcRequests :
       /\ inflight[s].stage = "free"
       /\ inflight' = [inflight EXCEPT ![s] =
            [stage |-> "pending",
             answer |-> [Idle EXCEPT !.endpoint = r.endpoint, !.query = r.query]]]
  /\ UNCHANGED <<catalog, client, last, file, manager>>

(* the event loop runs the handler of one waiting request *)
Handle ==
  \E s \in Slots, outcome \in ConcOutcomes :
    /\ inflight[s].stage = "pending"
    /\ inflight' = [inflight EXCEPT ![s] =
         [stage |-> "answered",
          answer |-> handle(catalog, client, inflight[s].answer.endpoint,
                            inflight[s].answer.query, outcome)]]
    /\ catalog' = catalog_after_request(catalog, inflight[s].answer.endpoint)
    /\ UNCHANGED <<client, last, file, manager>>

(* the response has been sent *)
Depart ==
  /\ \E s \in Slots :
       /\ inflight[s].stage = "answered"
       /\ inflight' = [inflight EXCEPT ![s] = FreeSlot]
  /\ UNCHANGED <<catalog, client, last, file, manager>>

NextConc == Arrive \/ Handle \/ Depart

SpecConc == InitConc /\ [][NextConc]_vars

LoadedAtStartup == load_schemes_database(file).schemes

(* C19: under any interleaving of concurrent search, query, listing, debug *)
(* and health requests the catalog keeps the value loaded at startup, and  *)
(* the result of each request equals the result it produces when run alone *)
(* against that catalog.                                                   *)
C19_CatalogReadOnlyUnderConcurrency ==
  /\ catalog = LoadedAtStartup
  /\ \A s \in Slots :
       inflight[s].stage = "answered" =>
         inflight[s].answer
           = handle(LoadedAtStartup, client, inflight[s].answer.endpoint,
                    inflight[s].answer.query, inflight[s].answer.outcome)

C19_Witness ==
  \E s \in Slots, t \in Slots :
    /\ inflight[s].stage = "answered"
    /\ inflight[s].answer.endpoint = "search"
    /\ Len(inflight[s].answer.body.results) = 2
    /\ inflight[t].stage = "answered"
    /\ inflight[t].answer.endpoint = "query"
    /\ inflight[t].answer.status = 200

----------------------------------------------------------------------------
(* generate_error_response called on its own.  The string it returns: the  *)
(* no_results literal is an f-string that quotes the query, the other two  *)
(* are plain literals; the Hindi parts are single symbols, and a query may *)
(* hold them.                                                              *)

MaxErrorQueryLen == 3

NoResultsRest    == "< ke lie koee sarakaaree yojana nahin milee ... >"
ServerErrorText  == "<sarakaaree yojanaon kee jaanakaaree lene mein kuchh samasya ...>"
InvalidQueryText == "<krpaya apana savaal spasht roop se poochhen ...>"

error_text(message) ==
  CASE message.text = "no_results"    -> <<"'">> \o message.arg \o <<"'", NoResultsRest>>
    [] message.text = "invalid_query" -> <<InvalidQueryText>>
    [] OTHER                          -> <<ServerErrorText>>

ErrorReasons == {"no_results", "server_error", "invalid_query"}

(* a reason that is not a key of error_responses gets the default *)
ErrorTypes == ErrorReasons \cup {"timeout"}

ErrorQueryChars == {"'", "g", ServerErrorText}

ErrorCall(query, error_type) ==
  [endpoint |-> "error_response", query |-> query, error_type |-> error_type,
   text |-> error_text(generate_error_response(query, error_type))]

InitError ==
  /\ catalog = <<>>
  /\ client = FALSE
  /\ file = MissingFile
  /\ inflight = <<>>
  /\ manager = NoManager
  /\ last = ErrorCall(<<>>, "no_results")

ErrorMore ==
  /\ Len(last.query) < MaxErrorQueryLen
  /\ \E c \in ErrorQueryChars, error_type \in ErrorTypes :
       last' = ErrorCall(Append(last.query, c), error_type)
  /\ UNCHANGED <<catalog, client, file, inflight, manager>>

NextError == ErrorMore

SpecError == InitError /\ [][NextError]_vars

(* C21: for every query, the message returned for one of the reasons       *)
(* no_results, server_error, invalid_query differs from the messages that  *)
(* the other two reasons give for the same query.                          *)
C21_ThreeDistinctMessages ==
  last.error_type \in ErrorReasons =>
    \A other \in ErrorReasons \ {last.error_type} :
      last.text # error_text(generate_error_response(last.query, other))

C21_Witness ==
  /\ last.error_type = "no_results"
  /\ last.query = <<"'", ServerErrorText, "'">>
  /\ Len(last.text) > 1

----------------------------------------------------------------------------
(* generate_hindi_response with the provider disabled, run twice: each run *)
(* has its own scheme and its own question.  The descriptions are shorter  *)
(* than, as long as, and longer than the slice [:150].                     *)

MaxTail == 2

LongText(n, c) == [i \in 1..n |-> IF i >= DescriptionLimit THEN c ELSE "d"]

FallbackDescriptions ==
  { <<>>, <<"c", "d">> }
    \cup { LongText(n, c) : n \in (DescriptionLimit - 1)..(DescriptionLimit + MaxTail),
                            c \in {"x", "y"} }
    \cup { Append(LongText(DescriptionLimit, "x"), "y") }

FallbackSchemes ==
  { [title |-> t, description |-> d, link |-> l]
      : t \in { <<"A", "b">>, <<"g", "h">> },
        d \in FallbackDescriptions,
        l \in { <<"h", ":", "1">> } }

FallbackQueries == { <<"g", "h">>, <<"z", "z">> }

NoRun == [ran |-> FALSE, scheme |-> <<>>, user_query |-> <<>>, text |-> <<>>, calls |-> 0]

FallbackRun(scheme, user_query) ==
  LET reply == generate_hindi_response(FALSE, scheme, user_query, NoCall)
  IN  [ran |-> TRUE, scheme |-> scheme, user_query |-> user_query,
       text |-> reply.text, calls |-> reply.calls]

InitFallback ==
  /\ catalog = <<>>
  /\ client = FALSE
  /\ file = MissingFile
  /\ inflight = <<>>
  /\ manager = NoManager
  /\ last = [endpoint |-> "fallback", first |-> NoRun, second |-> NoRun]

RunFirst ==
  /\ ~last.first.ran
  /\ \E scheme \in FallbackSchemes, user_query \in FallbackQueries :
       last' = [last EXCEPT !.first = FallbackRun(scheme, user_query)]
  /\ UNCHANGED <<catalog, client, file, inflight, manager>>

RunSecond ==
  /\ last.first.ran
  /\ ~last.second.ran
  /\ \E scheme \in FallbackSchemes, user_query \in FallbackQueries :
       last' = [last EXCEPT !.second = FallbackRun(scheme, user_query)]
  /\ UNCHANGED <<catalog, client, file, inflight, manager>>

NextFallback == RunFirst \/ RunSecond

SpecFallback == InitFallback /\ [][NextFallback]_vars

SameVisiblePart(s1, s2) ==
  /\ s1.title = s2.title
  /\ Take(s1.description, DescriptionLimit) = Take(s2.description, DescriptionLimit)

(* C22: with the provider disabled, two runs whose schemes have the same   *)
(* title and the same first 150 characters of description return the same  *)
(* string, whatever the two questions and the rest of the descriptions     *)
(* are; in particular two runs on the same scheme and question agree.      *)
C22_FallbackDependsOnSchemeAlone ==
  (last.first.ran /\ last.second.ran
     /\ SameVisiblePart(last.first.scheme, last.second.scheme))
    => last.first.text = last.second.text

C22_Witness ==
  /\ last.first.ran
  /\ last.second.ran
  /\ SameVisiblePart(last.first.scheme, last.second.scheme)
  /\ last.first.user_query # last.second.user_query
  /\ last.first.scheme.description # last.second.scheme.description
  /\ Len(last.first.scheme.description) > DescriptionLimit
  /\ last.first.text = last.second.text
  /\ last.first.calls = 0

----------------------------------------------------------------------------
(* SchemesManager (manage_schemes.py).  manager is self.data, the document *)
(* read from the catalog file: the metadata object and the schemes         *)
(* mapping, a sequence of [name, schemes] in the insertion order of the    *)
(* dict.  A scheme record is a function whose domain is the set of its     *)
(* keys; the values of title, description and link are texts and the value *)
(* of keywords is a list of texts.                                         *)

(* except FileNotFoundError and except json.JSONDecodeError return the     *)
(* empty document; json.load returns what the file holds                   *)
load_database(f) ==
  IF f.kind = "missing" THEN Document(EmptyObject, <<>>)
  ELSE IF f.kind = "invalid" THEN Document(EmptyObject, <<>>)
  ELSE f.data

(* category in self.data["schemes"], and its position *)
HasCategory(schemes, category) ==
  \E i \in 1..Len(schemes) : schemes[i].name = category

CategoryAt(schemes, category) ==
  CHOOSE i \in 1..Len(schemes) : schemes[i].name = category

required_fields == <<"title", "description", "link", "keywords">>

(* what a method call did: the value returned, the exception that left the *)
(* method ("none" when it returned), and self.data after it                *)
Outcome(returned, raised, d) == [returned |-> returned, raised |-> raised, data |-> d]

add_scheme(d, category, scheme_data) ==
  IF ~("schemes" \in DOMAIN d) THEN Outcome(FALSE, "KeyError", d)
  ELSE
    LET created == IF HasCategory(d.schemes, category)
                     THEN d.schemes
                     ELSE Append(d.schemes, [name |-> category, schemes |-> <<>>])
        i == CategoryAt(created, category)
    IN  IF \E k \in 1..Len(required_fields) : ~(required_fields[k] \in DOMAIN scheme_data)
          THEN Outcome(FALSE, "none", [d EXCEPT !.schemes = created])
          ELSE Outcome(TRUE, "none",
                       [d EXCEPT !.schemes =
                          [created EXCEPT ![i].schemes = Append(@, scheme_data)]])

(* schemes.pop(k) *)
Pop(seq, k) == SubSeq(seq, 1, k - 1) \o SubSeq(seq, k + 1, Len(seq))

(* the title compared as typed, without .lower() *)
remove_scheme_exact(d, category, scheme_title) ==
  IF ~("schemes" \in DOMAIN d) THEN Outcome(FALSE, "KeyError", d)
  ELSE IF ~HasCategory(d.schemes, category) THEN Outcome(FALSE, "none", d)
  ELSE
    LET i == CategoryAt(d.schemes, category)
        schemes == d.schemes[i].schemes
        stops == { k \in 1..Len(schemes) :
                     \/ ~("title" \in DOMAIN schemes[k])
                     \/ schemes[k].title = scheme_title }
    IN  IF stops = {} THEN Outcome(FALSE, "none", d)
        ELSE LET k == CHOOSE k \in stops : \A j \in stops : k <= j
             IN  IF ~("title" \in DOMAIN schemes[k])
                   THEN Outcome(FALSE, "KeyError", d)
                   ELSE Outcome(TRUE, "none",
                                [d EXCEPT !.schemes[i].schemes = Pop(@, k)])

(* the for loop stops at the first record whose title equals scheme_title  *)
(* ignoring case, or at the first record without a title, where            *)
(* scheme["title"] raises KeyError                                         *)
remove_scheme(d, category, scheme_title) ==
  IF ~("schemes" \in DOMAIN d) THEN Outcome(FALSE, "KeyError", d)
  ELSE IF ~HasCategory(d.schemes, category) THEN Outcome(FALSE, "none", d)
  ELSE
    LET i == CategoryAt(d.schemes, category)
        schemes == d.schemes[i].schemes
        stops == { k \in 1..Len(schemes) :
                     \/ ~("title" \in DOMAIN schemes[k])
                     \/ Lower(schemes[k].title) = Lower(scheme_title) }
    IN  IF stops = {} THEN Outcome(FALSE, "none", d)
        ELSE LET k == CHOOSE k \in stops : \A j \in stops : k <= j
             IN  IF ~("title" \in DOMAIN schemes[k])
                   THEN Outcome(FALSE, "KeyError", d)
                   ELSE Outcome(TRUE, "none",
                                [d EXCEPT !.schemes[i].schemes = Pop(@, k)])

StartsWith(prefix, s) == Len(s) >= Len(prefix) /\ SubSeq(s, 1, Len(prefix)) = prefix

Finding(category, index, what) == [category |-> category, index |-> index, what |-> what]

(* validate_database: the errors and the warnings it returns; it changes   *)
(* nothing.  Every keywords value of the model is a list.                  *)
validate_database(d) ==
  LET sections == (IF "metadata" \in DOMAIN d THEN {}
                     ELSE {Finding("", 0, "Missing metadata section")})
  IN  IF ~("schemes" \in DOMAIN d)
        THEN [errors   |-> sections \cup {Finding("", 0, "Missing schemes section")},
              warnings |-> {}]
        ELSE
          LET at == { <<c, i>> \in (1..Len(d.schemes)) \X (1..Len(FlatRecords(d.schemes))) :
                        i <= Len(d.schemes[c].schemes) }
              rec(p) == d.schemes[p[1]].schemes[p[2]]
              name(p) == d.schemes[p[1]].name
          IN  [errors |->
                 sections
                   \cup { Finding(name(p), p[2], "Missing required field") :
                            p \in { q \in at : \E k \in 1..Len(required_fields) :
                                      ~(required_fields[k] \in DOMAIN rec(q)) } }
                   \cup { Finding(name(p), p[2], "Empty title") :
                            p \in { q \in at : /\ "title" \in DOMAIN rec(q)
                                               /\ Strip(rec(q).title) = <<>> } },
               warnings |->
                 { Finding(name(p), p[2], "Link should start with http/https") :
                     p \in { q \in at : /\ "link" \in DOMAIN rec(q)
                                        /\ ~StartsWith(<<"h", "t", "t", "p">>, rec(q).link) } }]

----------------------------------------------------------------------------
(* The manager at work on a catalog file: the constructor loads the file,  *)
(* then add_scheme, remove_scheme and validate_database are called in any  *)
(* order.  The documents have a metadata object and a schemes mapping, and *)
(* their records have a title; the values of the fields are not checked by *)
(* anything before they reach self.data.                                   *)

MaxManagerRecs == 2

Http(rest) == <<"h", "t", "t", "p", ":">> \o rest

SchemeAb    == Scheme(<<"A", "b">>, <<"c", "d">>, Http(<<"1">>), << <<"g", "h">> >>)
SchemeAB    == Scheme(<<"A", "B">>, <<>>, Http(<<"2">>), <<>>)
SchemeGh    == Scheme(<<"g", "h">>, <<"e", "f">>, Http(<<"3">>), << <<"x">> >>)
SchemeBlank == Scheme(<<>>, <<"c", "d">>, <<"x">>, <<>>)

(* scheme data without the keywords field *)
SchemeNoKeywords ==
  [title |-> <<"g", "h">>, description |-> <<"e", "f">>, link |-> Http(<<"3">>)]

SchemeInputs == {SchemeAb, SchemeAB, SchemeBlank, SchemeNoKeywords}

ManagerCategories == {CategoryNames[1], CategoryNames[2]}

TitleInputs == { <<"a", "b">>, <<"G", "H">>, <<"z", "z">> }

ManagerCatalogs ==
  { <<>>,
    << [name |-> CategoryNames[1], schemes |-> <<SchemeGh>>] >>,
    << [name |-> CategoryNames[1], schemes |-> <<SchemeGh, SchemeAb>>],
       [name |-> CategoryNames[2], schemes |-> <<>>] >>,
    << [name |-> CategoryNames[2], schemes |-> <<SchemeBlank>>] >> }

ManagerFiles ==
  {MissingFile, InvalidFile}
    \cup {JsonFile(Document(SavedMetadata(c), c)) : c \in ManagerCatalogs}

NoReport == [errors |-> {}, warnings |-> {}]

(* the call just made: its arguments, self.data before it, and its outcome *)
ManagerCall(method, category, scheme_data, scheme_title, before, out, report) ==
  [endpoint |-> method, category |-> category, scheme_data |-> scheme_data,
   scheme_title |-> scheme_title, before |-> before,
   returned |-> out.returned, raised |-> out.raised, report |-> report]

InitManager ==
  /\ file \in ManagerFiles
  /\ manager = load_database(file)
  /\ last = ManagerCall("__init__", "", EmptyObject, <<>>, EmptyObject,
                        Outcome(TRUE, "none", manager), NoReport)
  /\ catalog = <<>>
  /\ client = FALSE
  /\ inflight = <<>>

RoomIn(d, category) ==
  IF HasCategory(d.schemes, category)
    THEN Len(d.schemes[CategoryAt(d.schemes, category)].schemes) < MaxManagerRecs
    ELSE TRUE

AddScheme ==
  \E category \in ManagerCategories, scheme_data \in SchemeInputs :
    /\ RoomIn(manager, category)
    /\ LET out == add_scheme(manager, category, scheme_data)
       IN  /\ manager' = out.data
           /\ last' = ManagerCall("add_scheme", category, scheme_data, <<>>,
                                  manager, out, NoReport)
    /\ UNCHANGED <<catalog, client, file, inflight>>

RemoveScheme ==
  \E category \in ManagerCategories, scheme_title \in TitleInputs :
    /\ LET out == remove_scheme(manager, category, scheme_title)
       IN  /\ manager' = out.data
           /\ last' = ManagerCall("remove_scheme", category, EmptyObject, scheme_title,
                                  manager, out, NoReport)
    /\ UNCHANGED <<catalog, client, file, inflight>>

ValidateDatabase ==
  /\ last.endpoint # "validate_database"
  /\ last' = ManagerCall("validate_database", "", EmptyObject, <<>>, manager,
                         Outcome(TRUE, "none", manager), validate_database(manager))
  /\ UNCHANGED <<catalog, client, file, inflight, manager>>

NextManager == AddScheme \/ RemoveScheme \/ ValidateDatabase

SpecManager == InitManager /\ [][NextManager]_vars

Records(d, category) ==
  IF HasCategory(d.schemes, category)
    THEN d.schemes[CategoryAt(d.schemes, category)].schemes
    ELSE <<>>

(* C23: after any sequence of add_scheme and remove_scheme calls no        *)
(* category holds two records whose titles are equal ignoring case.        *)
C23_TitleIdentifiesRecord ==
  \A c \in 1..Len(manager.schemes) :
    \A i, j \in 1..Len(manager.schemes[c].schemes) :
      i # j => Lower(manager.schemes[c].schemes[i].title)
                 # Lower(manager.schemes[c].schemes[j].title)

(* text begins with a URI scheme: a non-empty name followed by a colon *)
HasUriScheme(text) ==
  \E i \in 2..Len(text) :
    /\ text[i] = ":"
    /\ \A j \in 1..(i - 1) : text[j] \notin {":", "/", " ", "."}

(* C24: every record held by the manager, after loading and after any      *)
(* sequence of successful add_scheme calls, has a non-empty title and a    *)
(* link that begins with a URI scheme (its keywords value is a list in     *)
(* every state of the model).                                              *)
C24_RecordsAreWellFormed ==
  \A c \in 1..Len(manager.schemes) :
    \A i \in 1..Len(manager.schemes[c].schemes) :
      LET scheme == manager.schemes[c].schemes[i]
      IN  /\ scheme.title # <<>>
          /\ HasUriScheme(scheme.link)
          /\ DOMAIN scheme.keywords = 1..Len(scheme.keywords)

(* C27: add_scheme called with scheme data that lacks a required field     *)
(* returns False and leaves the whole database as it was before the call,  *)
(* the set of categories included.                                         *)
C27_RejectedAddChangesNothing ==
  (/\ last.endpoint = "add_scheme"
   /\ \E k \in 1..Len(required_fields) : ~(required_fields[k] \in DOMAIN last.scheme_data))
    => /\ last.raised = "none"
       /\ last.returned = FALSE
       /\ manager = last.before

----------------------------------------------------------------------------
(* The service on a catalog file that holds records without one of their   *)
(* fields, next to complete records.                                       *)

MaxFileRecs == 2

NoTitle    == [description |-> <<"g", "h">>, link |-> <<"h", ":", "4">>,
               keywords |-> << <<"g", "h">> >>]
NoKeywords == [title |-> <<"g", "h">>, description |-> <<>>, link |-> <<"h", ":", "5">>]
NoLink     == [title |-> <<"g", "h">>, description |-> <<>>,
               keywords |-> << <<"g", "h">> >>]

PartialRecords == {NoTitle, NoKeywords, NoLink}

PartialCatalogs ==
  { << [name |-> CategoryNames[1], schemes |-> records] >>
      : records \in SeqsUpTo(Pool \cup PartialRecords, MaxFileRecs) \ {<<>>} }

InitPartial ==
  /\ \E c \in PartialCatalogs : file = JsonFile(Document(SavedMetadata(c), c))
  /\ catalog = load_schemes_database(file).schemes
  /\ client \in BOOLEAN
  /\ last = Idle
  /\ inflight = <<>>
  /\ manager = NoManager

SpecPartial == InitPartial /\ [][Next]_vars

Unscorable == {i \in 1..Len(Flat) : score_raises(Flat[i])}

(* C25: when a record of the catalog cannot be scored (it lacks title,     *)
(* description or keywords), every search whose query passes the length    *)
(* guard returns results = [] and total_found = 0 without raising, also    *)
(* when complete records scored before it match the query.                 *)
C25_UnscorableRecordEmptiesSearch ==
  (last.searched /\ ~query_too_short(last.query) /\ Unscorable # {})
    => /\ last.search.results = <<>>
       /\ last.search.total_found = 0
       /\ last.search.search_query = last.query
       /\ (last.endpoint \in {"search", "debug"}
             => last.raised = "none" /\ last.status = 200)
       /\ (last.endpoint = "search"
             => last.body.results = <<>> /\ last.body.total_found = 0)

C25_Witness ==
  /\ last.endpoint = "search"
  /\ last.searched
  /\ Len(Flat) = 2
  /\ Unscorable = {2}
  /\ calculate_relevance_score(Flat[1], Words) > 0
  /\ last.search.scored = 2
  /\ last.body.results = <<>>

----------------------------------------------------------------------------
(* C26: during a POST /query request the provider is not called when the   *)
(* search yields no result, the answer then being the fixed no_results     *)
(* message, nor when the client is not configured, the answer then being   *)
(* the fallback text.                                                      *)
C26_NoCallWithoutResultOrClient ==
  last.endpoint = "query" =>
    /\ (last.search.results = <<>> \/ ~client) => last.calls = 0
    /\ (last.searched /\ last.search.results = <<>>)
         => /\ last.status = 404
            /\ last.detail = generate_error_response(last.query, "no_results")
    /\ (last.search.results # <<>> /\ ~client)
         => /\ last.status = 200
            /\ last.body.reply
                 = _get_fallback_response(last.search.results[1], last.query)

C26_Witness ==
  /\ last.endpoint = "query"
  /\ client
  /\ last.searched
  /\ ~query_too_short(last.query)
  /\ last.search.results = <<>>
  /\ last.status = 404
  /\ last.calls = 0

----------------------------------------------------------------------------
(* the positions of the records of a list whose title equals the given     *)
(* title ignoring case                                                     *)
SameTitle(records, scheme_title) ==
  {k \in 1..Len(records) : Lower(records[k].title) = Lower(scheme_title)}

(* the other categories and the metadata of d are those of e *)
OnlyCategoryDiffers(d, e, category) ==
  /\ DOMAIN d = DOMAIN e
  /\ d.metadata = e.metadata
  /\ Len(d.schemes) = Len(e.schemes)
  /\ \A c \in 1..Len(d.schemes) :
       /\ d.schemes[c].name = e.schemes[c].name
       /\ d.schemes[c].name # category => d.schemes[c].schemes = e.schemes[c].schemes

(* C28: remove_scheme(category, title) removes exactly the first record of *)
(* the category whose title equals the given title ignoring case and       *)
(* returns True, every other record and every other category staying as    *)
(* they were and in the same order; when the category or the title is      *)
(* absent it returns False and changes nothing.                            *)
C28_RemoveTakesFirstMatchOnly ==
  last.endpoint = "remove_scheme" =>
    LET records == Records(last.before, last.category)
        matches == SameTitle(records, last.scheme_title)
    IN  /\ last.raised = "none"
        /\ IF matches = {}
             THEN last.returned = FALSE /\ manager = last.before
             ELSE LET first == CHOOSE k \in matches : \A j \in matches : k <= j
                      left  == Records(manager, last.category)
                  IN  /\ last.returned = TRUE
                      /\ Len(left) = Len(records) - 1
                      /\ \A j \in 1..Len(left) :
                           left[j] = IF j < first THEN records[j] ELSE records[j + 1]
                      /\ OnlyCategoryDiffers(manager, last.before, last.category)

C28_Witness ==
  /\ last.endpoint = "remove_scheme"
  /\ last.returned = TRUE
  /\ Len(last.before.schemes) = 2
  /\ Cardinality(SameTitle(Records(last.before, last.category), last.scheme_title)) = 2
  /\ Records(last.before, last.category)[1].title # last.scheme_title
  /\ Records(manager, last.category) = <<Records(last.before, last.category)[2]>>
  /\ Records(last.before, last.category)[1] # Records(last.before, last.category)[2]

----------------------------------------------------------------------------
(* Saving and reloading (menu choices 8 and 9 of main).  json.dump writes  *)
(* the document that self.data holds and json.load reads it back: the      *)
(* document is made of dicts with string keys, lists, strings and          *)
(* integers, which JSON writes and reads without change, so the content of *)
(* the file is the document itself.                                        *)

(* obj[key] = value on a dict *)
SetKey(obj, key, value) ==
  [k \in DOMAIN obj \cup {key} |-> IF k = key THEN value ELSE obj[k]]

(* what save_database did: the value returned, self.data and the file     *)
(* after it                                                                *)
Saved(returned, d, f) == [returned |-> returned, data |-> d, file |-> f]

(* json.dump is left out: the metadata is updated and True is returned *)
save_database_nowrite(d, f, today) ==
  IF ~("metadata" \in DOMAIN d) THEN Saved(FALSE, d, f)
  ELSE
    LET dated == [d EXCEPT !.metadata = SetKey(@, "last_updated", today)]
    IN  IF ~("schemes" \in DOMAIN d) THEN Saved(FALSE, dated, f)
        ELSE
          LET counted == [dated EXCEPT !.metadata =
                            SetKey(@, "total_categories", Len(d.schemes))]
          IN  Saved(TRUE, counted, f)

(* the two metadata assignments raise KeyError on a document without the   *)
(* section they read; except Exception then returns False and the file has *)
(* not been opened                                                         *)
save_database(d, f, today) ==
  IF ~("metadata" \in DOMAIN d) THEN Saved(FALSE, d, f)
  ELSE
    LET dated == [d EXCEPT !.metadata = SetKey(@, "last_updated", today)]
    IN  IF ~("schemes" \in DOMAIN d) THEN Saved(FALSE, dated, f)
        ELSE
          LET counted == [dated EXCEPT !.metadata =
                            SetKey(@, "total_categories", Len(d.schemes))]
          IN  Saved(TRUE, counted, JsonFile(counted))

(* datetime.now(): the day of the file's last save, or a later day *)
Days == {"2024-01-01", "2024-06-01"}

PersistSchemes == {SchemeAb, SchemeNoKeywords}

PersistTitles == { <<"a", "b">>, <<"G", "H">> }

(* the call just made, and saved: the document that the file holds, which  *)
(* is the document in memory at the last save that returned True, or the   *)
(* document that the constructor loaded when there has been none           *)
PersistCall(method, before, returned, saved) ==
  [endpoint |-> method, before |-> before, returned |-> returned, saved |-> saved]

InitPersist ==
  /\ file \in ManagerFiles
  /\ manager = load_database(file)
  /\ last = PersistCall("__init__", EmptyObject, TRUE, manager)
  /\ catalog = <<>>
  /\ client = FALSE
  /\ inflight = <<>>

EditAdd ==
  \E scheme_data \in PersistSchemes :
    /\ RoomIn(manager, CategoryNames[1])
    /\ LET out == add_scheme(manager, CategoryNames[1], scheme_data)
       IN  /\ manager' = out.data
           /\ last' = PersistCall("add_scheme", manager, out.returned, last.saved)
    /\ UNCHANGED <<catalog, client, file, inflight>>

EditRemove ==
  \E scheme_title \in PersistTitles :
    /\ LET out == remove_scheme(manager, CategoryNames[1], scheme_title)
       IN  /\ manager' = out.data
           /\ last' = PersistCall("remove_scheme", manager, out.returned, last.saved)
    /\ UNCHANGED <<catalog, client, file, inflight>>

SaveDatabase ==
  \E today \in Days :
    /\ LET out == save_database(manager, file, today)
       IN  /\ manager' = out.data
           /\ file' = out.file
           /\ last' = PersistCall("save_database", manager, out.returned,
                                  IF out.returned THEN out.data ELSE last.saved)
    /\ UNCHANGED <<catalog, client, inflight>>

(* manager.data = manager.load_database() *)
ReloadDatabase ==
  /\ manager' = load_database(file)
  /\ last' = PersistCall("load_database", manager, TRUE, last.saved)
  /\ UNCHANGED <<catalog, client, file, inflight>>

NextPersist == EditAdd \/ EditRemove \/ SaveDatabase \/ ReloadDatabase

SpecPersist == InitPersist /\ [][NextPersist]_vars

(* C29: add_scheme and remove_scheme change only the data in memory: a     *)
(* reload gives back exactly the document last saved, whatever edits were  *)
(* made since, and a reload that follows a save gives back the schemes     *)
(* mapping that was in memory at the save.                                 *)
C29_ReloadRestoresLastSave ==
  /\ last.endpoint = "load_database" => manager = last.saved
  /\ last.endpoint = "save_database" =>
       /\ last.returned = TRUE
       /\ manager.schemes = last.before.schemes
       /\ load_database(file).schemes = last.before.schemes
  /\ last.endpoint \in {"add_scheme", "remove_scheme"} =>
       load_database(file) = last.saved

C29_Witness ==
  /\ last.endpoint = "load_database"
  /\ last.before.schemes # manager.schemes
  /\ "last_updated" \in DOMAIN manager.metadata
  /\ manager.metadata.last_updated = "2024-06-01"
  /\ FlatRecords(manager.schemes) # <<>>
  /\ FlatRecords(manager.schemes) # FlatRecords(last.before.schemes)

----------------------------------------------------------------------------
(* calculate_relevance_score called on its own on records whose title and  *)
(* keywords share words: a word that is a keyword and a word of the title, *)
(* a one-character word of the title, keywords of several words.           *)

TierCatalogs ==
  { << [name |-> CategoryNames[1], schemes |-> <<r>>] >> :
      r \in { Scheme(<<"g", "h", " ", "x">>, <<"c", "d">>, <<"h", ":", "6">>,
                     << <<"g", "h">>, <<"e", "f", " ", "z", "z">> >>),
              Scheme(<<"A", "b">>, <<"g", "h">>, <<"h", ":", "7">>,
                     << <<"A", "B", "C">>, <<"c", "d">> >>),
              Scheme(<<"e", "f">>, <<>>, <<"h", ":", "8">>,
                     << <<"c", "d", "x", " ", "z", "z">> >>) } }

InitTier ==
  /\ catalog \in TierCatalogs
  /\ client = FALSE
  /\ file = JsonFile(Document(SavedMetadata(catalog), catalog))
  /\ inflight = <<>>
  /\ manager = NoManager
  /\ last = ScoreCall(catalog[1].schemes[1], <<>>)

SpecTier == InitTier /\ [][NextScore]_vars

(* the word scored last and what it added to the score *)
LastWord == last.query_words[Len(last.query_words)]

LastGiven ==
  last.score
    - calculate_relevance_score(Scored,
        SubSeq(last.query_words, 1, Len(last.query_words) - 1))

KeywordTokens(scheme) ==
  UNION {Range(Split(Lower(scheme.keywords[k]))) : k \in 1..Len(scheme.keywords)}

InTitleOrDescriptionToken(scheme, word) ==
  \E token \in Range(Split(Lower(scheme.title)))
                 \cup Range(Split(Lower(scheme.description))) :
    Contains(word, token)

(* whenever 0.5 is what the word added, the word is inside a token of a    *)
(* keyword, is no whole keyword, and is in neither title nor description   *)
PartialIsThroughKeywords ==
  LastGiven = PartialScore =>
    /\ \E token \in KeywordTokens(Scored) : Contains(LastWord, token)
    /\ ~IsKeyword(Scored, LastWord)
    /\ ~Contains(LastWord, Lower(Scored.title))
    /\ ~Contains(LastWord, Lower(Scored.description))

(* C30 as stated: a query word adds 0.5 only through the keywords, and a   *)
(* word that is a substring of a title or description token always adds 5  *)
(* or 2.                                                                   *)
C30_TitleOrDescriptionWordScoresFiveOrTwo ==
  last.query_words # <<>> =>
    /\ PartialIsThroughKeywords
    /\ InTitleOrDescriptionToken(Scored, LastWord)
         => LastGiven \in {TitleScore, DescriptionScore}

(* C30, amended: a query word adds 0.5 only through the keywords; a word   *)
(* of at least two characters that is a substring of a title or            *)
(* description token adds 10 when it equals a keyword ignoring case and 5  *)
(* or 2 otherwise, never 0.5; a word of one character adds 0.              *)
C30_PartialOnlyThroughKeywords ==
  last.query_words # <<>> =>
    /\ PartialIsThroughKeywords
    /\ (Len(LastWord) >= MinWordLen /\ InTitleOrDescriptionToken(Scored, LastWord))
         => IF IsKeyword(Scored, LastWord)
              THEN LastGiven = KeywordScore
              ELSE LastGiven \in {TitleScore, DescriptionScore}
    /\ Len(LastWord) < MinWordLen => LastGiven = 0

C30_Witness ==
  /\ Len(last.query_words) = 2
  /\ last.query_words[1] = <<"g", "h">>
  /\ InTitleOrDescriptionToken(Scored, <<"g", "h">>)
  /\ IsKeyword(Scored, <<"g", "h">>)
  /\ LastWord = <<"z", "z">>
  /\ LastGiven = PartialScore
  /\ last.score = KeywordScore + PartialScore

====
